---- MODULE Spec2Model ----
(***************************************************************************)
(* Model of the render pass of src/printer.js: renderPages iterating pages *)
(* (orientation swap before each added page) and renderLine building the   *)
(* tagged-PDF structure tree from each line's tag tokens.                  *)
(*                                                                         *)
(* Strings of the tag grammar are kept as (leading "/" or not, remainder): *)
(* tagitem[0] != "/" reads the first field, tagitem.slice(1) reads the     *)
(* second, and an opening tag's whole text is its remainder.               *)
(***************************************************************************)
EXTENDS Integers, Sequences, FiniteSets, TLC

VARIABLES
  hasStk,      \* pdfKitDoc.stk has been created (it is undefined before the first tagged line)
  stk,         \* pdfKitDoc.stk: ids of the currently open structure elements, root first
  elems,       \* every structure element made by pdfKitDoc.struct(): [S, kids, ended]
  contents,    \* every marked-content span made by markStructureContent(): [tag, owner]
  markings,    \* the backend's stack of spans still open (page.markings)
  warnings,    \* number of console.log('WARNING: ...') calls so far
  thrown,      \* an exception left renderLine: the pass is aborted
  rendered,    \* the lines handed to renderLine so far, as they were handed in
  steps,       \* per tag token of the last line: what the token did
  prevSteps,   \* the same record for the line before the last
  tagsAfter,   \* line.tags of the last line when renderLine returned (or threw)
  endedNow,    \* elements whose end() the last line called, in call order
  attachedNow, \* <<span, element>> if the last line attached a span, else <<>>
  size,        \* pdfKitDoc.options.size
  docPages,    \* size of every physical page added to the backend, in order
  pageOrients, \* pageSize.orientation of pages[0..i]
  doc,         \* renderPages: pages, each with its items and its orientation
  pos,         \* renderPages: <<i + 1, ii>>, the page and the items of it passed
  progressCallback, \* a progress callback was supplied
  totalItems,  \* renderPages: totalItems
  renderedItems, \* renderPages: renderedItems
  progress,    \* the arguments of the calls of the supplied callback, as <<rendered, total>>
  done,        \* renderPages has returned
  call,        \* the function applied on its own, with its arguments
  result       \* <<>> until the function of call has run, then <<its outcome>>

vars == <<hasStk, stk, elems, contents, markings, warnings, thrown, rendered,
          steps, prevSteps, tagsAfter, endedNow, attachedNow, size, docPages, pageOrients,
          doc, pos, progressCallback, totalItems, renderedItems, progress, done,
          call, result>>

passVars == <<doc, pos, progressCallback, totalItems, renderedItems, progress, done>>

callVars == <<call, result>>

lineVars == <<hasStk, stk, elems, contents, markings, warnings, thrown, rendered,
              steps, prevSteps, tagsAfter, endedNow, attachedNow>>

pageVars == <<size, docPages, pageOrients>>

\* ---------------------------------------------------------------- bounds
MaxLines == 4
MaxTableLines == 4
MaxPages == 6

\* ---------------------------------------------------------------- tag tokens
StringTag(slash, name) ==
  [type |-> "string", slash |-> slash, name |-> name, onetime |-> 0, isNull |-> FALSE]

OpenTag(name) == StringTag(FALSE, name)

CloseTag(name) == StringTag(TRUE, name)

\* {onetime: n}; n = 0 stands for an object whose onetime field is missing or falsy
OnetimePop(n) ==
  [type |-> "object", slash |-> FALSE, name |-> "", onetime |-> n, isNull |-> FALSE]

PlainObject == OnetimePop(0)

\* typeof null is 'object'
NullTag ==
  [type |-> "object", slash |-> FALSE, name |-> "", onetime |-> 0, isNull |-> TRUE]

NumberTag ==
  [type |-> "number", slash |-> FALSE, name |-> "", onetime |-> 0, isNull |-> FALSE]

\* typeof [] is 'object', and an array has no onetime field
ArrayTag ==
  [type |-> "object", slash |-> FALSE, name |-> "[]", onetime |-> 0, isNull |-> FALSE]

UndefinedTag ==
  [type |-> "undefined", slash |-> FALSE, name |-> "", onetime |-> 0, isNull |-> FALSE]

\* a text line: its tags and its startsNode / endsNode properties
\* ("absent": the property is not on the object)
Line(tags, s, e) == [tags |-> tags, startsNode |-> s, endsNode |-> e]

StartLine(tags) == Line(tags, "true", "absent")

EndLine(tags) == Line(tags, "absent", "true")

BothLine(tags) == Line(tags, "true", "true")

\* ---------------------------------------------------------------- helpers of renderLine
\* const endsNode = function () { return 'endsNode' in line; }
endsNode(line) == line.endsNode # "absent"

\* const startsNode = function () { return 'startsNode' in line; }
startsNode(line) == line.startsNode # "absent"

\* mutant of topElement: pdfKitDoc.stk.slice(0)[0], the bottom of the stack
bottomElement(s) == IF Len(s) = 0 THEN 0 ELSE s[1]

\* pdfKitDoc.stk.slice(-1)[0]; 0 stands for undefined (empty stack)
topElement(s) == IF Len(s) = 0 THEN 0 ELSE s[Len(s)]

\* pdfKitDoc.stk.pop()
Pop(s) == IF Len(s) = 0 THEN s ELSE SubSeq(s, 1, Len(s) - 1)

\* pdfKitDoc.struct(name): a new, open element without children
struct(name) == [S |-> name, kids |-> <<>>, ended |-> 0]

ElemKid(id) == [k |-> "E", id |-> id]

ContentKid(id) == [k |-> "C", id |-> id]

\* parent.add(child)
add(es, parent, kid) ==
  [es EXCEPT ![parent].kids = Append(es[parent].kids, kid)]

\* element.end()
end(es, e) == [es EXCEPT ![e].ended = es[e].ended + 1]

\* the nesting policy tables of the opening-tag branch
good ==
  ("Table" :> {"TR"}) @@ ("TR" :> {"TD", "TH"}) @@ ("L" :> {"LI"}) @@
  ("LI" :> {"Lbl", "LBody"})

bad ==
  ("H" :> {"H", "TR", "TD", "TH"}) @@
  ("H1" :> {"H", "H1", "TR", "TD", "TH"}) @@
  ("H2" :> {"H", "H1", "H2", "TR", "TD", "TH"}) @@
  ("H3" :> {"H", "H1", "H2", "H3", "TR", "TD", "TH"}) @@
  ("H4" :> {"H", "H1", "H2", "H3", "H4", "TR", "TD", "TH"}) @@
  ("H5" :> {"H", "H1", "H2", "H3", "H4", "H5", "TR", "TD", "TH"}) @@
  ("H6" :> {"H", "H1", "H2", "H3", "H4", "H5", "H6", "TR", "TD", "TH"})

\* mutant of PolicyViolation: only the allow-lists are consulted
PolicyViolationAllowListsOnly(parentItem, tagitem) ==
  parentItem \in DOMAIN good /\ tagitem \notin good[parentItem]

\* (parentItem in good && !good[parentItem].includes(tagitem))
\*   || (parentItem in bad && bad[parentItem].includes(tagitem))
PolicyViolation(parentItem, tagitem) ==
  \/ parentItem \in DOMAIN good /\ tagitem \notin good[parentItem]
  \/ parentItem \in DOMAIN bad /\ tagitem \in bad[parentItem]

\* what one tag token did, for the record kept in steps
Step(tok, before, after, warned, enq, threw) ==
  [tok |-> tok, before |-> before, after |-> after, warned |-> warned,
   enq |-> enq, threw |-> threw]

\* the token raised an exception: nothing after it in renderLine runs
Throw(c, tok) ==
  [c EXCEPT !.thrown = TRUE,
            !.steps = Append(c.steps, Step(tok, c.stk, c.stk, 0, <<>>, TRUE))]

\* if (!pdfKitDoc.stk) { root = struct('Document'); addStructure(root); stk = [root] }
EnsureRoot(c) ==
  IF c.hasStk THEN c
  ELSE [c EXCEPT !.hasStk = TRUE,
                 !.elems = Append(c.elems, struct("Document")),
                 !.stk = <<Len(c.elems) + 1>>]

\* ---------------------------------------------------------------- the tag loop
\* an opening tag on a line that startsNode: warn on a policy violation, then
\* create the element as a child of the stack top and push it
OpeningTag(c, tok) ==
  LET parent == topElement(c.stk)
      parentItem == c.elems[parent].S
      warned == IF PolicyViolation(parentItem, tok.name) THEN 1 ELSE 0
      id == Len(c.elems) + 1
      after == Append(c.stk, id)
  IN [c EXCEPT !.warnings = c.warnings + warned,
               !.lastTag = tok.name,
               !.lastElem = id,
               !.elems = add(Append(c.elems, struct(tok.name)), parent, ElemKid(id)),
               !.stk = after,
               !.steps = Append(c.steps, Step(tok, c.stk, after, warned, <<>>, FALSE))]

\* mutant of CloseMismatch: the syntax check is left out, every closing tag pops
CloseMismatchUnchecked(parentItem, tok) == FALSE

\* if (parentItem != tagitem.slice(1))
CloseMismatch(parentItem, tok) == parentItem # tok.name

\* a closing tag on a line that endsNode: a mismatch warns and pops nothing,
\* a match enqueues the stack top for closure and pops it
ClosingTag(c, tok) ==
  LET top == topElement(c.stk)
      parentItem == c.elems[top].S
  IN IF CloseMismatch(parentItem, tok)
     THEN [c EXCEPT !.warnings = c.warnings + 1,
                    !.steps = Append(c.steps, Step(tok, c.stk, c.stk, 1, <<>>, FALSE))]
     ELSE [c EXCEPT !.fifo = Append(c.fifo, top),
                    !.stk = Pop(c.stk),
                    !.steps = Append(c.steps,
                                     Step(tok, c.stk, Pop(c.stk), 0, <<top>>, FALSE))]

\* case 'string'
StringCase(c, line, tok) ==
  IF Len(c.stk) = 0
  THEN Throw(c, tok)      \* topElement() is undefined: reading .dictionary throws
  ELSE IF ~tok.slash /\ tok.name = ""
  THEN [c EXCEPT !.steps = Append(c.steps, Step(tok, c.stk, c.stk, 0, <<>>, FALSE))]
  ELSE IF ~tok.slash /\ startsNode(line) THEN OpeningTag(c, tok)
  ELSE IF tok.slash /\ endsNode(line) THEN ClosingTag(c, tok)
  ELSE [c EXCEPT !.steps = Append(c.steps, Step(tok, c.stk, c.stk, 0, <<>>, FALSE))]

\* mutant of ClampPops: the comparison is >= and the clamp keeps one more element
ClampPopsKeepsOneMore(pops, poppable) == IF pops >= poppable THEN poppable - 1 ELSE pops

\* if (pops > poppable) { warn; pops = poppable; }
ClampPops(pops, poppable) == IF pops > poppable THEN poppable ELSE pops

\* for (j = 0; j < pops; j++) { closingsFifo.push(topElement()); stk.pop(); }
\* the elements pushed on closingsFifo, in push order
RECURSIVE PoppedBy(_, _)
PoppedBy(s, pops) ==
  IF pops <= 0 THEN <<>>
  ELSE <<topElement(s)>> \o PoppedBy(Pop(s), pops - 1)

RECURSIVE PopTimes(_, _)
PopTimes(s, pops) == IF pops <= 0 THEN s ELSE PopTimes(Pop(s), pops - 1)

\* case 'object'
ObjectCase(c, line, tok, itag) ==
  IF ~endsNode(line)
  THEN [c EXCEPT !.steps = Append(c.steps, Step(tok, c.stk, c.stk, 0, <<>>, FALSE))]
  ELSE IF tok.isNull
  THEN Throw(c, tok)      \* tagitem.onetime on null throws
  ELSE
    LET asked == tok.onetime
        poppable == Len(c.stk) - 1
        warned == IF asked > poppable THEN 1 ELSE 0
        pops == ClampPops(asked, poppable)
        enq == PoppedBy(c.stk, pops)
        after == PopTimes(c.stk, pops)
    IN [c EXCEPT !.lifo = <<itag>> \o c.lifo,
                 !.warnings = c.warnings + warned,
                 !.fifo = c.fifo \o enq,
                 !.stk = after,
                 !.steps = Append(c.steps, Step(tok, c.stk, after, warned, enq, FALSE))]

\* default: console.log('WARNING: Ignoring object ' + tagitem.toString() + ...)
DefaultCase(c, tok) ==
  IF tok.type = "undefined"
  THEN Throw(c, tok)      \* undefined has no toString
  ELSE [c EXCEPT !.warnings = c.warnings + 1,
                 !.steps = Append(c.steps, Step(tok, c.stk, c.stk, 1, <<>>, FALSE))]

\* switch (typeof tagitem)
ProcessTag(c, line, itag) ==
  LET tok == line.tags[itag]
  IN CASE tok.type = "string" -> StringCase(c, line, tok)
       [] tok.type = "object" -> ObjectCase(c, line, tok, itag)
       [] OTHER -> DefaultCase(c, tok)

\* for (itag = 0; itag < line.tags.length; itag++)
RECURSIVE TagLoop(_, _, _)
TagLoop(c, line, itag) ==
  IF itag > Len(line.tags) \/ c.thrown THEN c
  ELSE TagLoop(ProcessTag(c, line, itag), line, itag + 1)

\* tags.splice(k, 1)
Splice(tags, k) ==
  IF k < 1 \/ k > Len(tags) THEN tags
  ELSE SubSeq(tags, 1, k - 1) \o SubSeq(tags, k + 1, Len(tags))

\* lifo.map((k) => { line.tags.splice(k, 1); })
RECURSIVE SpliceAll(_, _)
SpliceAll(tags, lifo) ==
  IF lifo = <<>> THEN tags
  ELSE SpliceAll(Splice(tags, Head(lifo)), Tail(lifo))

\* mutant of TagBlock: the tag loop runs for every non-empty tag list, whatever the flags
TagBlockWhateverTheFlags(c, line) ==
  IF Len(line.tags) > 0
  THEN LET d == TagLoop(EnsureRoot(c), line, 1)
       IN IF d.thrown THEN d
          ELSE [d EXCEPT !.tags = SpliceAll(d.tags, d.lifo)]
  ELSE c

\* if (line.tags && line.tags.length > 0 && (startsNode() || endsNode())) { ... }
TagBlock(c, line) ==
  IF Len(line.tags) > 0 /\ (startsNode(line) \/ endsNode(line))
  THEN LET d == TagLoop(EnsureRoot(c), line, 1)
       IN IF d.thrown THEN d
          ELSE [d EXCEPT !.tags = SpliceAll(d.tags, d.lifo)]
  ELSE c

\* ---------------------------------------------------------------- marked content
\* The drawing backend is outside src/: per section 4.4 of the specification the open
\* spans form a stack, the newest on top (renderLine reads page.markings.slice(-1)[0]).
\* pdfKitDoc.markStructureContent(tag): a new span, opened for element owner
markStructureContent(c, tag, owner) ==
  [c EXCEPT !.contents = Append(c.contents, [tag |-> tag, owner |-> owner]),
            !.markings = Append(c.markings, Len(c.contents) + 1),
            !.structContent = Len(c.contents) + 1]

\* pdfKitDoc.endMarkedContent(): the newest open span is closed
endMarkedContent(m) == Pop(m)

\* if ('startsNode' in line) { if (lastOpenedStructTag) structContent = markStructureContent(..) }
OpenContent(c, line) ==
  IF startsNode(line) /\ c.lastTag # ""
  THEN markStructureContent(c, c.lastTag, c.lastElem)
  ELSE c

\* if (!structContent) structContent = page.markings.slice(-1)[0].structContent (or undefined)
CurrentContent(c) ==
  IF c.structContent # 0 THEN c.structContent ELSE topElement(c.markings)

\* mutant of AttachTarget: the first element of closingsFifo, whatever the line opened
AttachTargetFifoFirst(c) ==
  IF Len(c.fifo) > 0 THEN c.fifo[1] ELSE 0

\* if (!lastOpenedStructElement) lastOpenedStructElement = closingsFifo[0]
AttachTarget(c) ==
  IF c.lastElem # 0 THEN c.lastElem
  ELSE IF Len(c.fifo) > 0 THEN c.fifo[1] ELSE 0

\* mutant of EndAll: an if in place of the while, only the first queued element is ended
EndFirstOnly(es, fifo) ==
  IF fifo = <<>> THEN es ELSE end(es, Head(fifo))

\* while (closingsFifo.length > 0) closingsFifo.shift().end()
RECURSIVE EndAll(_, _)
EndAll(es, fifo) ==
  IF fifo = <<>> THEN es ELSE EndAll(end(es, Head(fifo)), Tail(fifo))

\* if (endsNode()) { attach and end the span; end every element of closingsFifo }
CloseNode(c, line) ==
  IF ~endsNode(line) THEN c
  ELSE
    LET sc == CurrentContent(c)
        el == AttachTarget(c)
        c1 == IF sc # 0 /\ el # 0
              THEN [c EXCEPT !.elems = add(c.elems, el, ContentKid(sc)),
                             !.markings = endMarkedContent(c.markings),
                             !.attached = <<sc, el>>]
              ELSE IF sc # 0
              THEN [c EXCEPT !.markings = endMarkedContent(c.markings)]
              ELSE c
    IN [c1 EXCEPT !.elems = EndAll(c1.elems, c1.fifo),
                  !.ended = c1.fifo]

\* renderLine, from the tag block to the closing of the node
RenderLineResult(c, line) ==
  LET d == TagBlock(c, line)
  IN IF d.thrown THEN d ELSE CloseNode(OpenContent(d, line), line)

\* the locals of renderLine at its start, over the backend's state
Entry(line) ==
  [hasStk |-> hasStk, stk |-> stk, elems |-> elems, contents |-> contents,
   markings |-> markings, warnings |-> warnings, thrown |-> FALSE,
   steps |-> <<>>, tags |-> line.tags, fifo |-> <<>>, lifo |-> <<>>,
   lastTag |-> "", lastElem |-> 0, structContent |-> 0,
   ended |-> <<>>, attached |-> <<>>]

\* ---------------------------------------------------------------- actions
\* renderLine(line, x, y, pdfKitDoc) on the backend's state
RenderLineStep(line) ==
  /\ ~thrown
  /\ LET r == RenderLineResult(Entry(line), line)
     IN /\ hasStk' = r.hasStk
        /\ stk' = r.stk
        /\ elems' = r.elems
        /\ contents' = r.contents
        /\ markings' = r.markings
        /\ warnings' = r.warnings
        /\ thrown' = r.thrown
        /\ steps' = r.steps
        /\ prevSteps' = steps
        /\ tagsAfter' = r.tags
        /\ endedNow' = r.ended
        /\ attachedNow' = r.attached
  /\ rendered' = Append(rendered, line)

\* renderPages hands the next text line to renderLine
renderLine(line) ==
  /\ RenderLineStep(line)
  /\ UNCHANGED <<pageVars, passVars, callVars>>

\* size[0] > size[1] ? 'landscape' : 'portrait'
Orientation(sz) == IF sz[1] > sz[2] THEN "landscape" ELSE "portrait"

\* mutant of updatePageOrientationInOptions: the sizes are swapped for every page
updatePageOrientationAlways(orientation, sz) == <<sz[2], sz[1]>>

\* updatePageOrientationInOptions(currentPage, pdfKitDoc)
updatePageOrientationInOptions(orientation, sz) ==
  IF orientation # Orientation(sz) THEN <<sz[2], sz[1]>> ELSE sz

\* updatePageOrientationInOptions(pages[i], pdfKitDoc); pdfKitDoc.addPage(pdfKitDoc.options)
AddPageStep(orientation) ==
  /\ size' = updatePageOrientationInOptions(orientation, size)
  /\ docPages' = Append(docPages, size')
  /\ pageOrients' = Append(pageOrients, orientation)

\* renderPages, i > 0: update the orientation, then add the page
AddPage(orientation) ==
  /\ ~thrown
  /\ Len(docPages) < MaxPages
  /\ AddPageStep(orientation)
  /\ UNCHANGED <<lineVars, passVars, callVars>>

\* ---------------------------------------------------------------- inputs
Orientations == {"portrait", "landscape"}

\* page sizes [width, height] the document may be created with
InitSizes == {<<2, 3>>, <<3, 2>>, <<2, 2>>}

\* no pass over a given list of pages is being followed
NoPass ==
  /\ doc = <<>>
  /\ pos = <<1, 0>>
  /\ progressCallback = FALSE
  /\ totalItems = 0
  /\ renderedItems = 0
  /\ progress = <<>>
  /\ done = FALSE

\* no function is applied on its own
NoCall ==
  /\ call = [fn |-> "none"]
  /\ result = <<>>

\* the backend document as createPdfKitDocument hands it to renderPages, after the
\* first page is added with the size fixPageSize returned, whose orientation field
\* is that of the size
FreshDocument ==
  /\ hasStk = FALSE
  /\ stk = <<>>
  /\ elems = <<>>
  /\ contents = <<>>
  /\ markings = <<>>
  /\ warnings = 0
  /\ thrown = FALSE
  /\ rendered = <<>>
  /\ steps = <<>>
  /\ prevSteps = <<>>
  /\ tagsAfter = <<>>
  /\ endedNow = <<>>
  /\ attachedNow = <<>>
  /\ size \in InitSizes
  /\ docPages = <<size>>
  /\ pageOrients = <<Orientation(size)>>

\* state when renderPages enters its loop
Init == FreshDocument /\ NoPass /\ NoCall

\* text lines with arbitrary, possibly malformed tag lists
Lines ==
  { StartLine(<<OpenTag("P")>>),
    StartLine(<<OpenTag("P"), OpenTag("Span")>>),
    StartLine(<<NumberTag, OpenTag("Span")>>),
    BothLine(<<CloseTag("P"), OpenTag("Span")>>),
    EndLine(<<CloseTag("Span")>>),
    EndLine(<<CloseTag("P")>>),
    EndLine(<<CloseTag("Span"), CloseTag("P")>>),
    EndLine(<<CloseTag("Document"), CloseTag("P")>>),
    EndLine(<<OnetimePop(1)>>),
    EndLine(<<OnetimePop(3), PlainObject>>),
    EndLine(<<OnetimePop(1), NullTag>>),
    EndLine(<<NullTag>>),
    EndLine(<<CloseTag("Document")>>) }

\* text lines of a table laid out over a page break
TableLines ==
  { StartLine(<<OpenTag("Table"), OpenTag("TR"), OpenTag("TH")>>),
    EndLine(<<CloseTag("TH"), CloseTag("TR")>>),
    EndLine(<<OnetimePop(1)>>),
    StartLine(<<OpenTag("TR"), OpenTag("TD")>>),
    EndLine(<<CloseTag("TD"), CloseTag("TR")>>),
    EndLine(<<CloseTag("Table")>>),
    BothLine(<<OpenTag("TD"), CloseTag("TD")>>),
    StartLine(<<OpenTag("TD")>>),
    EndLine(<<CloseTag("TD"), CloseTag("TR"), CloseTag("Table")>>) }

\* ---------------------------------------------------------------- specifications
\* a document created with one fixed portrait size
InitPortrait == Init /\ size = <<2, 3>>

\* a pass over text lines with arbitrary tag lists
Next == \E line \in Lines : Len(rendered) < MaxLines /\ renderLine(line)

Spec == InitPortrait /\ [][Next]_vars

\* a pass over the lines of a table
NextTable == \E line \in TableLines : Len(rendered) < MaxTableLines /\ renderLine(line)

SpecTable == InitPortrait /\ [][NextTable]_vars

\* a pass over pages of changing orientation
NextPages == \E orientation \in Orientations : AddPage(orientation)

SpecPages == Init /\ [][NextPages]_vars

\* ---------------------------------------------------------------- reading the tree
Root == 1

\* ids of the structure elements that are children of e, in the order they were added
RECURSIVE ElemIds(_)
ElemIds(kids) ==
  IF kids = <<>> THEN <<>>
  ELSE IF Head(kids).k = "E" THEN <<Head(kids).id>> \o ElemIds(Tail(kids))
  ELSE ElemIds(Tail(kids))

ChildElems(e) == ElemIds(elems[e].kids)

\* ids of the spans attached to e
ChildContents(e) ==
  {elems[e].kids[i].id : i \in {j \in DOMAIN elems[e].kids : elems[e].kids[j].k = "C"}}

Range(f) == {f[i] : i \in DOMAIN f}

ElemsNamed(name) == {e \in DOMAIN elems : elems[e].S = name}

ChildrenNamed(e, name) == {k \in Range(ChildElems(e)) : elems[k].S = name}

ParentsOf(e) == {p \in DOMAIN elems : e \in Range(ChildElems(p))}

\* ---------------------------------------------------------------- C1
TableScenario ==
  << StartLine(<<OpenTag("Table"), OpenTag("TR"), OpenTag("TH")>>),
     EndLine(<<CloseTag("TH"), CloseTag("TR")>>),
     EndLine(<<OnetimePop(1)>>),
     StartLine(<<OpenTag("TR"), OpenTag("TD")>>) >>

\* C1 as stated: after the four lines of the page-split table the tree holds exactly
\* one Table element and both TR elements are children of it.
C1_OneTableTwoRows ==
  rendered = TableScenario =>
    /\ Cardinality(ElemsNamed("Table")) = 1
    /\ \A t \in ElemsNamed("Table") : Cardinality(ChildrenNamed(t, "TR")) = 2

\* C1 amended: after the four lines the tree holds exactly one Table element with
\* exactly one TR child (the first); the onetime pop of 1 closed the Table itself,
\* and the second TR is a child of the document root, which is the stack top the
\* fourth line found.
C1_SecondRowUnderRoot ==
  rendered = TableScenario =>
    /\ ~thrown
    /\ Cardinality(ElemsNamed("Table")) = 1
    /\ Cardinality(ElemsNamed("TR")) = 2
    /\ \A t \in ElemsNamed("Table") :
         /\ Cardinality(ChildrenNamed(t, "TR")) = 1
         /\ elems[t].ended = 1
         /\ t \notin Range(stk)
    /\ Cardinality(ChildrenNamed(Root, "TR")) = 1
    /\ Len(stk) = 3 /\ stk[1] = Root
    /\ elems[stk[2]].S = "TR" /\ elems[stk[3]].S = "TD"
    /\ ParentsOf(stk[2]) = {Root}
    /\ warnings = 0

C1_Witness == rendered = TableScenario /\ Len(elems) = 6

\* ---------------------------------------------------------------- C2
\* C2: once the document root has been created it stays the bottom element of the
\* stack, so the stack depth is at least 1.
C2_RootNeverPopped == hasStk => (Len(stk) >= 1 /\ stk[1] = Root)

\* the root was popped by a closing tag naming it
C2_Witness ==
  /\ hasStk /\ stk = <<>>
  /\ \E i \in DOMAIN steps : steps[i].tok = CloseTag("Document") /\ steps[i].enq = <<Root>>

\* ---------------------------------------------------------------- reading the last line
LastLine == rendered[Len(rendered)]

\* step i of the last line is a onetime pop that the line's endsNode let act
IsOnetimeStep(st, line) ==
  /\ st.tok.type = "object" /\ ~st.tok.isNull /\ st.tok.onetime >= 1
  /\ endsNode(line)

\* step i is a closing tag that the line's endsNode let act on a stack with a top
IsCloseStep(st, line) ==
  /\ st.tok.type = "string" /\ st.tok.slash
  /\ endsNode(line) /\ ~st.threw

\* step i is an opening tag that the line's startsNode let act
IsOpenStep(st, line) ==
  /\ st.tok.type = "string" /\ ~st.tok.slash /\ st.tok.name # ""
  /\ startsNode(line) /\ ~st.threw

\* the n topmost entries of stack s, topmost first
RECURSIVE TopFirst(_, _)
TopFirst(s, n) ==
  IF n <= 0 \/ s = <<>> THEN <<>>
  ELSE <<s[Len(s)]>> \o TopFirst(SubSeq(s, 1, Len(s) - 1), n - 1)

\* ---------------------------------------------------------------- C3
\* C3: a onetime pop of n > depth-1 on an endsNode line pops exactly depth-1 elements
\* (all but the root), emits a warning, and leaves the root on the stack, not queued
\* for closure.
C3_ClampedPopKeepsRoot ==
  rendered # <<>> =>
    \A i \in DOMAIN steps :
      (IsOnetimeStep(steps[i], LastLine)
         /\ steps[i].tok.onetime > Len(steps[i].before) - 1)
      => /\ Len(steps[i].enq) = Len(steps[i].before) - 1
         /\ steps[i].warned = 1
         /\ steps[i].after = <<Root>>
         /\ Root \notin Range(steps[i].enq)

\* the same with the root still on the stack when the token is reached: this part holds
C3_ClampedPopWithRootOnStack ==
  rendered # <<>> =>
    \A i \in DOMAIN steps :
      (IsOnetimeStep(steps[i], LastLine)
         /\ steps[i].before # <<>>
         /\ steps[i].tok.onetime > Len(steps[i].before) - 1)
      => /\ Len(steps[i].enq) = Len(steps[i].before) - 1
         /\ steps[i].warned = 1
         /\ steps[i].after = <<Root>>
         /\ Root \notin Range(steps[i].enq)

\* an over-large onetime pop met an empty stack
C3_Witness ==
  /\ rendered # <<>>
  /\ \E i \in DOMAIN steps :
       /\ IsOnetimeStep(steps[i], LastLine)
       /\ steps[i].before = <<>>

\* an over-large onetime pop met a stack of depth 3
C3_WitnessClamped ==
  /\ rendered # <<>>
  /\ \E i \in DOMAIN steps :
       /\ IsOnetimeStep(steps[i], LastLine)
       /\ Len(steps[i].before) = 3 /\ steps[i].tok.onetime = 3

\* ---------------------------------------------------------------- C4
\* what a onetime pop of n <= depth-1 does to the stack: the n topmost are queued,
\* topmost first, and the entries below are as before
OnetimePopsTopN(st) ==
  /\ st.enq = TopFirst(st.before, st.tok.onetime)
  /\ st.after = SubSeq(st.before, 1, Len(st.before) - st.tok.onetime)
  /\ st.warned = 0

\* the line after a onetime pop opens an element: it is a child of the stack top
\* the pop left, a sibling of the last popped element and not its child
ContinuationIsSibling ==
  (/\ Len(rendered) >= 2
   /\ prevSteps # <<>> /\ steps # <<>>
   /\ IsOnetimeStep(prevSteps[Len(prevSteps)], rendered[Len(rendered) - 1])
   /\ prevSteps[Len(prevSteps)].enq # <<>>
   /\ IsOpenStep(steps[1], LastLine))
  => LET pop == prevSteps[Len(prevSteps)]
         popped == pop.enq[Len(pop.enq)]
         new == topElement(steps[1].after)
     IN /\ ParentsOf(new) = {topElement(pop.after)}
        /\ ParentsOf(new) = ParentsOf(popped)
        /\ new \notin Range(ChildElems(popped))

\* C4: a onetime pop of n <= depth-1 on an endsNode line closes exactly the n topmost
\* elements and leaves the entries below unchanged; an opening tag on the following
\* startsNode line makes its element a child of the new stack top.
C4_OnetimePopClosesTopN ==
  /\ rendered # <<>> =>
       \A i \in DOMAIN steps :
         (IsOnetimeStep(steps[i], LastLine)
            /\ steps[i].tok.onetime <= Len(steps[i].before) - 1)
         => /\ OnetimePopsTopN(steps[i])
            /\ \A e \in Range(steps[i].enq) : elems[e].ended = 1
  /\ ContinuationIsSibling

\* the stack effect and the sibling relation alone, with the closing left to lines
\* that run to their end: this part holds
C4_OnetimePopStackEffect ==
  /\ rendered # <<>> =>
       \A i \in DOMAIN steps :
         (IsOnetimeStep(steps[i], LastLine)
            /\ steps[i].tok.onetime <= Len(steps[i].before) - 1)
         => /\ OnetimePopsTopN(steps[i])
            /\ ~thrown => \A e \in Range(steps[i].enq) : elems[e].ended = 1
  /\ ContinuationIsSibling

\* a onetime pop within the depth was followed on the same line by a token that threw
C4_Witness ==
  /\ rendered # <<>> /\ thrown
  /\ \E i \in DOMAIN steps :
       /\ IsOnetimeStep(steps[i], LastLine)
       /\ steps[i].tok.onetime <= Len(steps[i].before) - 1
       /\ \E e \in Range(steps[i].enq) : elems[e].ended = 0

\* a onetime pop within the depth was followed by a line opening a sibling
C4_WitnessSibling ==
  /\ Len(rendered) >= 2 /\ prevSteps # <<>> /\ steps # <<>>
  /\ IsOnetimeStep(prevSteps[Len(prevSteps)], rendered[Len(rendered) - 1])
  /\ prevSteps[Len(prevSteps)].enq # <<>>
  /\ Len(prevSteps[Len(prevSteps)].after) >= 2
  /\ IsOpenStep(steps[1], LastLine)

\* ---------------------------------------------------------------- C5
\* C5: a closing tag on an endsNode line whose name differs from the name of the
\* current stack top pops nothing, queues nothing for closure, leaves the stack
\* unchanged and emits exactly one warning.
C5_MismatchedCloseIgnored ==
  rendered # <<>> =>
    \A i \in DOMAIN steps :
      (IsCloseStep(steps[i], LastLine)
         /\ steps[i].before # <<>>
         /\ elems[topElement(steps[i].before)].S # steps[i].tok.name)
      => /\ steps[i].after = steps[i].before
         /\ steps[i].enq = <<>>
         /\ steps[i].warned = 1

\* a mismatched closing tag met a stack of depth 2 or more
C5_Witness ==
  /\ rendered # <<>>
  /\ \E i \in DOMAIN steps :
       /\ IsCloseStep(steps[i], LastLine)
       /\ Len(steps[i].before) >= 2
       /\ elems[topElement(steps[i].before)].S # steps[i].tok.name
       /\ steps[i].warned = 1

\* ---------------------------------------------------------------- C6
\* The nesting of a tag stream, read off the stream alone: names and parent (0: the
\* root) of every open in open order, and the opens not yet closed, innermost last.
\* ok records that so far every token is an opening tag on a startsNode line that
\* the nesting policy admits under its enclosing open, or a closing tag on an
\* endsNode line naming the innermost unclosed open.
NestingStart == [ok |-> TRUE, names |-> <<>>, parent |-> <<>>, open |-> <<>>]

NestingToken(n, tok, line) ==
  IF ~n.ok THEN n
  ELSE IF tok.type # "string" \/ tok.name = "" THEN [n EXCEPT !.ok = FALSE]
  ELSE IF ~tok.slash
  THEN LET encl == IF n.open = <<>> THEN 0 ELSE n.open[Len(n.open)]
           enclName == IF encl = 0 THEN "Document" ELSE n.names[encl]
       IN IF startsNode(line) /\ ~PolicyViolation(enclName, tok.name)
          THEN [n EXCEPT !.names = Append(n.names, tok.name),
                         !.parent = Append(n.parent, encl),
                         !.open = Append(n.open, Len(n.names) + 1)]
          ELSE [n EXCEPT !.ok = FALSE]
  ELSE IF endsNode(line) /\ n.open # <<>> /\ n.names[n.open[Len(n.open)]] = tok.name
  THEN [n EXCEPT !.open = SubSeq(n.open, 1, Len(n.open) - 1)]
  ELSE [n EXCEPT !.ok = FALSE]

RECURSIVE NestingLine(_, _, _)
NestingLine(n, line, i) ==
  IF i > Len(line.tags) THEN n
  ELSE NestingLine(NestingToken(n, line.tags[i], line), line, i + 1)

RECURSIVE NestingOf(_, _, _)
NestingOf(n, lines, k) ==
  IF k > Len(lines) THEN n
  ELSE NestingOf(NestingLine(n, lines[k], 1), lines, k + 1)

Nesting == NestingOf(NestingStart, rendered, 1)

Increasing(seq) == \A i, j \in DOMAIN seq : i < j => seq[i] < seq[j]

\* C6: for a properly nested, policy-conforming tag stream the structure tree equals
\* the nesting tree of the opens and closes: every element's parent is the nearest
\* enclosing unclosed open (or the root), children are in open order, and the stack
\* holds the root and the opens still unclosed, so only the root once all are closed.
C6_TreeMirrorsNesting ==
  (rendered # <<>> /\ Nesting.ok) =>
    LET n == Nesting
    IN /\ ~thrown
       /\ Len(elems) = Len(n.names) + 1
       /\ elems[Root].S = "Document" /\ ParentsOf(Root) = {}
       /\ \A k \in DOMAIN n.names :
            /\ elems[k + 1].S = n.names[k]
            /\ ParentsOf(k + 1) = {n.parent[k] + 1}
       /\ \A e \in DOMAIN elems : Increasing(ChildElems(e))
       /\ stk = <<Root>> \o [i \in DOMAIN n.open |-> n.open[i] + 1]
       /\ n.open = <<>> => stk = <<Root>>

\* a balanced stream closed its last open; the table has two rows
C6_Witness ==
  /\ rendered # <<>> /\ Nesting.ok /\ Nesting.open = <<>>
  /\ Len(Nesting.names) >= 5
  /\ \E t \in ElemsNamed("Table") : Cardinality(ChildrenNamed(t, "TR")) = 2
  /\ stk = <<Root>>

\* ---------------------------------------------------------------- C7
\* C7: a marked-content span is only ever attached to the element it was opened for
\* (the element at the depth the span was opened at), never to another one.
C7_SpanAttachedToOwner ==
  \A e \in DOMAIN elems : \A sc \in ChildContents(e) : contents[sc].owner = e

\* the last line attached a span to an element other than the one it was opened for
C7_Witness ==
  /\ attachedNow # <<>>
  /\ contents[attachedNow[1]].owner # attachedNow[2]

\* ---------------------------------------------------------------- C8
\* C8: no tag list, however malformed, makes renderLine throw: every line is
\* processed to its end and the pass goes on.
C8_NeverAborts == ~thrown

\* a tag token made renderLine throw
C8_Witness == thrown /\ steps # <<>> /\ steps[Len(steps)].threw

\* ---------------------------------------------------------------- C9
RECURSIVE Enqueued(_)
Enqueued(sts) == IF sts = <<>> THEN <<>> ELSE Head(sts).enq \o Enqueued(Tail(sts))

ClosedOncePerPop ==
  /\ \A e \in DOMAIN elems : elems[e].ended <= 1
  /\ \A e \in DOMAIN elems : e \notin Range(stk) => elems[e].ended = 1
  /\ endedNow = Enqueued(steps)

\* C9: every element popped from the stack is closed exactly once, by the line that
\* popped it, and the elements a line pops are closed in the order it popped them.
C9_PoppedClosedOnceInOrder == ClosedOncePerPop

\* the same for passes in which no line threw: this part holds
C9_ClosedWhenLineCompletes == ~thrown => ClosedOncePerPop

\* a line popped an element and threw before closing it
C9_Witness ==
  /\ thrown
  /\ \E e \in Range(Enqueued(steps)) : elems[e].ended = 0

\* a line popped two elements and closed them, innermost first
C9_WitnessInOrder ==
  /\ ~thrown /\ Len(endedNow) = 2 /\ endedNow[1] > endedNow[2]

\* ---------------------------------------------------------------- C10
Transpose(sz) == <<sz[2], sz[1]>>

\* C10: before every page after the first is added, the backend's width and height
\* are swapped exactly when the page's orientation differs from that of the
\* backend's current size; landscape, portrait, landscape swaps before the second
\* of the three and swaps back before the third; and the backend's size is always
\* the original pair or its transpose.
C10_OrientationSwap ==
  /\ size = docPages[Len(docPages)]
  /\ Len(pageOrients) = Len(docPages)
  /\ \A i \in 2..Len(docPages) :
       docPages[i] = IF pageOrients[i] # Orientation(docPages[i - 1])
                     THEN Transpose(docPages[i - 1])
                     ELSE docPages[i - 1]
  /\ \A i \in 1..(Len(docPages) - 2) :
       (/\ pageOrients[i] = "landscape"
        /\ pageOrients[i + 1] = "portrait"
        /\ pageOrients[i + 2] = "landscape")
       => /\ docPages[i + 1] = Transpose(docPages[i])
          /\ docPages[i + 2] = docPages[i]
  /\ \A i \in DOMAIN docPages : docPages[i] \in {docPages[1], Transpose(docPages[1])}

\* pages landscape, portrait, landscape of a size that is not square
C10_Witness ==
  /\ Len(docPages) >= 4
  /\ docPages[1][1] # docPages[1][2]
  /\ \E i \in 2..(Len(docPages) - 2) :
       /\ pageOrients[i] = "landscape"
       /\ pageOrients[i + 1] = "portrait"
       /\ pageOrients[i + 2] = "landscape"
       /\ docPages[i + 1] # docPages[i]

\* ---------------------------------------------------------------------------
\* Page margins and the height of an auto-height page
\* ---------------------------------------------------------------------------

\* largest number of layout items in the pages of one call
MaxItems == 3

\* JavaScript values a document definition can give as pageMargins
Num(n) == [kind |-> "number", n |-> n, a |-> <<>>]
Arr(a) == [kind |-> "array", n |-> 0, a |-> a]
Str(n) == [kind |-> "string", n |-> n, a |-> <<>>]
Obj == [kind |-> "object", n |-> 0, a |-> <<>>]
Null == [kind |-> "null", n |-> 0, a |-> <<>>]

\* the object fixPageMargins builds
Sides(l, t, r, b) == [kind |-> "sides", left |-> l, top |-> t, right |-> r, bottom |-> b]

\* helpers.isNumber, helpers.isArray
isNumber(v) == v.kind = "number"
isArray(v) == v.kind = "array"

\* what a call returns: a value, or the exception it threw
Returned(v) == [threw |-> FALSE, value |-> v]
Raised == [threw |-> TRUE, value |-> <<>>]

\* fixPageMargins(margin)
fixPageMargins(margin) ==
  IF isNumber(margin)
  THEN Returned(Sides(margin.n, margin.n, margin.n, margin.n))
  ELSE IF isArray(margin)
       THEN IF Len(margin.a) = 2
            THEN Returned(Sides(margin.a[1], margin.a[2], margin.a[1], margin.a[2]))
            ELSE IF Len(margin.a) = 4
                 THEN Returned(Sides(margin.a[1], margin.a[2], margin.a[3], margin.a[4]))
                 ELSE Raised
       ELSE Returned(margin)

\* a number that may be missing: <<>> is undefined (or NaN once computed with), <<n>> is n
Undefined == <<>>
Defined(n) == <<n>>

\* a layout item {type, item}: kind is its type, the other fields are item.y,
\* the value item.getHeight() returns when item.getHeight is a function,
\* item._height, item.y1 and item.y2
Item(kind, y, getHeight, height, y1, y2) ==
  [kind |-> kind, y |-> y, getHeight |-> getHeight, height |-> height, y1 |-> y1, y2 |-> y2]

\* a text line: y and getHeight()
LineItem(y, h) == Item("line", Defined(y), Defined(h), Undefined, Undefined, Undefined)
\* an image: y and _height
ImageItem(y, h) == Item("image", Defined(y), Undefined, Defined(h), Undefined, Undefined)
\* a vector of type line: y1 and y2, no y
VectorLine(y1, y2) == Item("vector", Undefined, Undefined, Undefined, Defined(y1), Defined(y2))
\* a vector of type rect: y, and neither y1 nor y2
VectorRect(y) == Item("vector", Defined(y), Undefined, Undefined, Undefined, Undefined)
\* an item of a kind with no height of its own
OtherItem(y) == Item("beginClip", Defined(y), Undefined, Undefined, Undefined, Undefined)

\* a || 0 on a number that may be missing
OrZero(a) == IF a = Undefined THEN 0 ELSE a[1]

\* calculatePageHeight: getItemHeight(item)
getItemHeight(item) ==
  IF item.getHeight # Undefined
  THEN item.getHeight
  ELSE IF OrZero(item.height) # 0
       THEN item.height
       ELSE IF item.kind = "vector"
            THEN IF item.y1 # Undefined /\ item.y2 # Undefined /\ item.y1[1] > item.y2[1]
                 THEN item.y1
                 ELSE item.y2
            ELSE Defined(0)

\* calculatePageHeight: getBottomPosition(item); top + undefined is NaN
getBottomPosition(item) ==
  LET top == OrZero(item.y)
      height == getItemHeight(item)
  IN IF height = Undefined THEN Undefined ELSE Defined(top + height[1])

\* the items of all pages, in the order of the two forEach loops
RECURSIVE AllItems(_)
AllItems(pages) ==
  IF pages = <<>> THEN <<>> ELSE pages[1] \o AllItems(Tail(pages))

\* the forEach body over the items: a comparison with NaN is false
RECURSIVE ScanItems(_, _)
ScanItems(items, height) ==
  IF items = <<>>
  THEN height
  ELSE LET bottomPosition == getBottomPosition(items[1])
       IN ScanItems(Tail(items),
                    IF bottomPosition # Undefined /\ bottomPosition[1] > height
                    THEN bottomPosition[1]
                    ELSE height)

\* margins || 40
OrForty(margins) ==
  IF margins.kind = "null" \/ (margins.kind = "number" /\ margins.n = 0)
     \/ (margins.kind = "string" /\ margins.n = 0)
  THEN Num(40)
  ELSE margins

\* calculatePageHeight(pages, margins); the top and bottom of a value that is not
\* the object fixPageMargins builds are undefined, and the sum is NaN
calculatePageHeight(pages, margins) ==
  LET fixedMargins == fixPageMargins(OrForty(margins))
  IN IF fixedMargins.threw
     THEN Raised
     ELSE IF fixedMargins.value.kind # "sides"
          THEN Returned(Undefined)
          ELSE Returned(Defined(ScanItems(AllItems(pages), fixedMargins.value.top)
                                + fixedMargins.value.bottom))

\* the function of call runs
CalculatePageHeight ==
  /\ call.fn = "calculatePageHeight"
  /\ result = <<>>
  /\ result' = <<calculatePageHeight(call.pages, call.margins)>>
  /\ UNCHANGED <<lineVars, pageVars, passVars, call>>

\* items a layout produces
HeightItems ==
  { LineItem(100, 50), LineItem(300, 20), LineItem(10, 5), ImageItem(20, 400),
    VectorLine(0, 350), VectorRect(500), OtherItem(450) }

\* sequences over a set, up to a length
SeqsUpTo(S, n) == UNION { [1..k -> S] : k \in 0..n }

\* page lists with up to n items: the items as one page, or split into two pages
PageLists(S, n) ==
  LET flat == SeqsUpTo(S, n)
  IN { <<f>> : f \in flat }
     \cup { <<SubSeq(f, 1, 1), SubSeq(f, 2, Len(f))>> : f \in { g \in flat : Len(g) >= 2 } }

\* pageMargins of a document definition that asks for an auto-height page
HeightMargins ==
  { Num(40), Num(0), Num(10), Arr(<<10, 40>>), Arr(<<0, 20, 0, 40>>), Arr(<<0, 0>>) }

InitHeight ==
  /\ FreshDocument
  /\ size = <<2, 3>>
  /\ NoPass
  /\ \E pages \in PageLists(HeightItems, MaxItems), margins \in HeightMargins :
       call = [fn |-> "calculatePageHeight", pages |-> pages, margins |-> margins]
  /\ result = <<>>

NextHeight == CalculatePageHeight

SpecHeight == InitHeight /\ [][NextHeight]_vars

\* the larger of two numbers
Max(a, b) == IF a > b THEN a ELSE b

\* the height of an item of its own, 0 when it has none
IntrinsicHeight(item) ==
  IF item.getHeight # Undefined
  THEN item.getHeight[1]
  ELSE IF item.height # Undefined
       THEN item.height[1]
       ELSE IF item.kind = "vector" /\ item.y1 # Undefined /\ item.y2 # Undefined
            THEN Max(item.y1[1], item.y2[1])
            ELSE 0

\* the maximum of y + height over the items, floored at a given value
RECURSIVE MaxBottom(_, _)
MaxBottom(items, floor) ==
  IF items = <<>>
  THEN floor
  ELSE MaxBottom(Tail(items), Max(floor, OrZero(items[1].y) + IntrinsicHeight(items[1])))

\* a call of calculatePageHeight has returned
HeightComputed == call.fn = "calculatePageHeight" /\ result # <<>>

\* the three items of the example, on one page or on two
ExampleItems == <<LineItem(100, 50), LineItem(300, 20), LineItem(10, 5)>>

\* C11: the height computed for an auto-height page is the maximum of y + height
\* over all items of all pages, floored at the top margin, plus the bottom margin,
\* an item with no height of its own counting with height 0; the items (100, 50),
\* (300, 20), (10, 5) with margins 40 give 360.
C11_AutoHeight ==
  HeightComputed =>
    LET given == fixPageMargins(call.margins).value
    IN /\ result[1] = Returned(Defined(MaxBottom(AllItems(call.pages), given.top) + given.bottom))
       /\ (AllItems(call.pages) = ExampleItems /\ call.margins = Num(40))
            => result[1] = Returned(Defined(360))

\* C11, the part that holds: with margins that are not 0 and items that all have a
\* height the code finds, the height is the floored maximum plus the bottom margin
C11_AutoHeightOfSizedItems ==
  (/\ HeightComputed
   /\ call.margins # Num(0)
   /\ \A i \in DOMAIN AllItems(call.pages) : getItemHeight(AllItems(call.pages)[i]) # Undefined)
  => LET given == fixPageMargins(call.margins).value
     IN result[1] = Returned(Defined(MaxBottom(AllItems(call.pages), given.top) + given.bottom))

\* C11, the example: 300 + 20 + 40
C11_Example ==
  (HeightComputed /\ AllItems(call.pages) = ExampleItems /\ call.margins = Num(40))
  => result[1] = Returned(Defined(360))

\* the height of a page with scalar margins 0 and one item (100, 50) has been computed
C11_Witness ==
  /\ HeightComputed
  /\ call.margins = Num(0)
  /\ call.pages = <<<<LineItem(100, 50)>>>>
  /\ result[1] = Returned(Defined(190))

\* the height of the example has been computed
C11_WitnessExample ==
  /\ HeightComputed
  /\ call.pages = <<SubSeq(ExampleItems, 1, 1), SubSeq(ExampleItems, 2, 3)>>
  /\ call.margins = Num(40)

\* ---------------------------------------------------------------------------
\* Page references resolved while a line is drawn
\* ---------------------------------------------------------------------------

\* largest page number a reference resolves to
MaxPageNumber == 120

\* Number.prototype.toString: the decimal digits of a positive integer
RECURSIVE toString(_)
toString(n) == IF n < 10 THEN <<n>> ELSE Append(toString(n \div 10), n % 10)

\* textTools.widthOfString(text, font, ...): the advances of the glyphs, which
\* for the digits of a font are one width (a whole even number here, so that
\* diffWidth / 2 is exact)
widthOfString(text, font) == Len(text) * font

\* preparePageNodeRefLine with the whole difference added for center alignment
preparePageNodeRefLineShiftsCenterFully(positions, inline) ==
  IF positions = Undefined
  THEN Raised
  ELSE LET pageNumber == toString(positions[1])
           newWidth == widthOfString(pageNumber, inline.font)
           diffWidth == inline.width - newWidth
       IN Returned([inline EXCEPT !.text = pageNumber, !.width = newWidth,
                                  !.x = IF inline.alignment \in {"right", "center"}
                                        THEN @ + diffWidth
                                        ELSE @])

\* preparePageNodeRefLine(_pageNodeRef, inline): positions is
\* _pageNodeRef.positions, undefined or with the page number of positions[0]
preparePageNodeRefLine(positions, inline) ==
  IF positions = Undefined
  THEN Raised
  ELSE LET pageNumber == toString(positions[1])
           newWidth == widthOfString(pageNumber, inline.font)
           diffWidth == inline.width - newWidth
       IN Returned([inline EXCEPT !.text = pageNumber, !.width = newWidth,
                                  !.x = IF inline.alignment = "right"
                                        THEN @ + diffWidth
                                        ELSE IF inline.alignment = "center"
                                             THEN @ + (diffWidth \div 2)
                                             ELSE @])

\* renderLine reaches an inline with a _pageNodeRef
PreparePageNodeRefLine ==
  /\ call.fn = "preparePageNodeRefLine"
  /\ result = <<>>
  /\ result' = <<preparePageNodeRefLine(call.positions, call.inline)>>
  /\ UNCHANGED <<lineVars, pageVars, passVars, call>>

\* inline.alignment: "undefined" when the inline has none
Alignments == {"right", "center", "left", "justify", "undefined"}

\* inlines laid out with a placeholder text of some width, in fonts whose digits
\* are 10 or 6 wide
PageRefInlines ==
  { [text |-> <<0, 0>>, x |-> x, width |-> w, alignment |-> al, font |-> f] :
      x \in {0, 100}, w \in {50, 30, 20, 6}, al \in Alignments, f \in {10, 6} }

InitPageRef ==
  /\ FreshDocument
  /\ size = <<2, 3>>
  /\ NoPass
  /\ \E positions \in {Undefined} \cup { Defined(n) : n \in 1..MaxPageNumber },
        inline \in PageRefInlines :
       call = [fn |-> "preparePageNodeRefLine", positions |-> positions, inline |-> inline]
  /\ result = <<>>

NextPageRef == PreparePageNodeRefLine

SpecPageRef == InitPageRef /\ [][NextPageRef]_vars

\* a page reference has been resolved
PageRefResolved ==
  /\ call.fn = "preparePageNodeRefLine"
  /\ result # <<>>
  /\ ~result[1].threw

\* C12: when a page reference is resolved, the inline's text becomes the page
\* number and its width the width of that text; x grows by oldWidth - newWidth
\* for right alignment, by half of that for center alignment, and stays for left
\* or no alignment; from width 50 to 30 that is +20, +10 and 0.
C12_PageRefShift ==
  PageRefResolved =>
    LET old == call.inline
        new == result[1].value
        diff == old.width - new.width
    IN /\ new.text = toString(call.positions[1])
       /\ new.width = Len(new.text) * old.font
       /\ old.alignment = "right" => new.x = old.x + diff
       /\ old.alignment = "center" => 2 * (new.x - old.x) = diff
       /\ old.alignment \in {"left", "undefined"} => new.x = old.x
       /\ (old.width = 50 /\ new.width = 30) =>
            new.x - old.x = CASE old.alignment = "right" -> 20
                              [] old.alignment = "center" -> 10
                              [] OTHER -> 0

\* a centered inline of width 50 has been resolved to a page number of width 30
C12_Witness ==
  /\ PageRefResolved
  /\ call.inline.alignment = "center"
  /\ call.inline.width = 50
  /\ result[1].value.width = 30
  /\ result[1].value.x = call.inline.x + 10

\* a right-aligned inline has been resolved to a wider text and moved left
C12_WitnessWider ==
  /\ PageRefResolved
  /\ call.inline.alignment = "right"
  /\ result[1].value.width > call.inline.width
  /\ result[1].value.x < call.inline.x

\* ---------------------------------------------------------------------------
\* fixPageMargins applied to the shapes a document definition can give
\* ---------------------------------------------------------------------------

\* largest scalar margin, longest array margin
MaxMargin == 40
MaxMarginLen == 5

\* pageMargins values: numbers, arrays of numbers of every length up to the
\* longest, strings, an object with other keys, null
MarginValues ==
  { Num(n) : n \in 0..MaxMargin }
  \cup { Arr(a) : a \in SeqsUpTo({10, 20}, MaxMarginLen) }
  \cup { Str(0), Str(2), Obj, Null }

\* the function of call runs
FixPageMargins ==
  /\ call.fn = "fixPageMargins"
  /\ result = <<>>
  /\ result' = <<fixPageMargins(call.margin)>>
  /\ UNCHANGED <<lineVars, pageVars, passVars, call>>

InitMargins ==
  /\ FreshDocument
  /\ size = <<2, 3>>
  /\ NoPass
  /\ \E margin \in MarginValues : call = [fn |-> "fixPageMargins", margin |-> margin]
  /\ result = <<>>

NextMargins == FixPageMargins

SpecMargins == InitMargins /\ [][NextMargins]_vars

\* a call of fixPageMargins has ended
MarginsFixed == call.fn = "fixPageMargins" /\ result # <<>>

\* the three shapes of a margin: a scalar, a pair, a 4-sequence
MarginShape(margin) ==
  \/ margin.kind = "number"
  \/ margin.kind = "array" /\ Len(margin.a) \in {2, 4}

\* the sides of a margin of one of the three shapes
MarginSides(margin) ==
  IF margin.kind = "number"
  THEN Sides(margin.n, margin.n, margin.n, margin.n)
  ELSE IF Len(margin.a) = 2
       THEN Sides(margin.a[1], margin.a[2], margin.a[1], margin.a[2])
       ELSE Sides(margin.a[1], margin.a[2], margin.a[3], margin.a[4])

\* C13: a scalar m resolves to m on all four sides, a pair [h, v] to left = right
\* = h and top = bottom = v, a 4-sequence [l, t, r, b] to those sides, and every
\* other input (an array of another length, a string, an object) fails with an
\* error.
C13_MarginShapes ==
  MarginsFixed =>
    IF MarginShape(call.margin)
    THEN result[1] = Returned(MarginSides(call.margin))
    ELSE result[1].threw

\* C13, the part that holds: the three shapes resolve as stated and an array of
\* any other length fails
C13_NumbersAndArrays ==
  (MarginsFixed /\ call.margin.kind \in {"number", "array"}) =>
    IF MarginShape(call.margin)
    THEN result[1] = Returned(MarginSides(call.margin))
    ELSE result[1].threw

\* a string margin has come back as it was given, without an error
C13_Witness ==
  /\ MarginsFixed
  /\ call.margin = Str(2)
  /\ result[1] = Returned(Str(2))

\* an array of three has failed, and a pair has been resolved
C13_WitnessArrays ==
  /\ MarginsFixed
  /\ \/ call.margin = Arr(<<10, 20, 10>>) /\ result[1].threw
     \/ call.margin = Arr(<<10, 20>>) /\ result[1] = Returned(Sides(10, 20, 10, 20))

\* ---------------------------------------------------------------------------
\* renderPages over a given list of pages
\* ---------------------------------------------------------------------------

\* largest number of items in the pages of one pass
MaxPassItems == 3

\* a layout item of type 'line', and one of another type
TextItem(line) == [type |-> "line", line |-> line]
VectorItem == [type |-> "vector", line |-> Line(<<>>, "absent", "absent")]

\* the items of the pages, page by page
ItemsOf(pages) == [k \in DOMAIN pages |-> pages[k].items]

\* renderPages: totalItems, summed only when a callback was supplied
TotalItems(pages, callback) == IF callback THEN Len(AllItems(ItemsOf(pages))) ELSE 0

\* renderPages with the counter raised only after lines
RenderItemCountsLinesOnly ==
  /\ ~done
  /\ ~thrown
  /\ pos[1] <= Len(doc)
  /\ pos[2] < Len(doc[pos[1]].items)
  /\ LET item == doc[pos[1]].items[pos[2] + 1]
     IN /\ IF item.type = "line"
           THEN RenderLineStep(item.line)
           ELSE UNCHANGED lineVars
        /\ IF thrown'
           THEN UNCHANGED <<pos, renderedItems, progress>>
           ELSE /\ pos' = <<pos[1], pos[2] + 1>>
                /\ renderedItems' = IF item.type = "line"
                                    THEN renderedItems + 1
                                    ELSE renderedItems
                /\ progress' = IF progressCallback
                               THEN Append(progress, <<renderedItems', totalItems>>)
                               ELSE progress
  /\ UNCHANGED <<pageVars, doc, progressCallback, totalItems, done, callVars>>

\* renderPages: the body of the inner loop for item ii of page i; an exception
\* of renderLine leaves the function before the counter and the callback
RenderItem ==
  /\ ~done
  /\ ~thrown
  /\ pos[1] <= Len(doc)
  /\ pos[2] < Len(doc[pos[1]].items)
  /\ LET item == doc[pos[1]].items[pos[2] + 1]
     IN /\ IF item.type = "line"
           THEN RenderLineStep(item.line)
           ELSE UNCHANGED lineVars
        /\ IF thrown'
           THEN UNCHANGED <<pos, renderedItems, progress>>
           ELSE /\ pos' = <<pos[1], pos[2] + 1>>
                /\ renderedItems' = renderedItems + 1
                /\ progress' = IF progressCallback
                               THEN Append(progress, <<renderedItems', totalItems>>)
                               ELSE progress
  /\ UNCHANGED <<pageVars, doc, progressCallback, totalItems, done, callVars>>

\* renderPages: the outer loop moves to page i > 0
NextPage ==
  /\ ~done
  /\ ~thrown
  /\ pos[1] < Len(doc)
  /\ pos[2] = Len(doc[pos[1]].items)
  /\ AddPageStep(doc[pos[1] + 1].orientation)
  /\ pos' = <<pos[1] + 1, 0>>
  /\ UNCHANGED <<lineVars, doc, progressCallback, totalItems, renderedItems, progress,
                 done, callVars>>

\* renderPages returns after the last item of the last page
Finish ==
  /\ ~done
  /\ ~thrown
  /\ \/ doc = <<>>
     \/ pos[1] = Len(doc) /\ pos[2] = Len(doc[pos[1]].items)
  /\ done' = TRUE
  /\ UNCHANGED <<lineVars, pageVars, doc, pos, progressCallback, totalItems,
                 renderedItems, progress, callVars>>

\* items of a pass: a line that opens a paragraph, lines that close it, a line
\* without tags, a line whose tag list holds null, and a vector
PassItems ==
  { TextItem(StartLine(<<OpenTag("P")>>)),
    TextItem(EndLine(<<CloseTag("P")>>)),
    TextItem(EndLine(<<OnetimePop(1)>>)),
    TextItem(Line(<<>>, "absent", "absent")),
    TextItem(EndLine(<<NullTag>>)),
    VectorItem }

\* the page lists of a pass, every page after the first with an orientation
PassPages ==
  { [k \in DOMAIN pl |-> [items |-> pl[k], orientation |-> o]] :
      pl \in PageLists(PassItems, MaxPassItems) \cup {<<>>}, o \in Orientations }

\* renderPages(pages, fontProvider, pdfKitDoc, progressCallback) after its first
\* addPage and the count of the items
InitPass ==
  /\ FreshDocument
  /\ size = <<2, 3>>
  /\ doc \in PassPages
  /\ progressCallback \in BOOLEAN
  /\ totalItems = TotalItems(doc, progressCallback)
  /\ pos = <<1, 0>>
  /\ renderedItems = 0
  /\ progress = <<>>
  /\ done = FALSE
  /\ NoCall

NextPass == RenderItem \/ NextPage \/ Finish

SpecPass == InitPass /\ [][NextPass]_vars

\* the number of items of the pages before the position of the loops
ItemsPassed ==
  IF doc = <<>>
  THEN 0
  ELSE Len(AllItems(SubSeq(ItemsOf(doc), 1, pos[1] - 1))) + pos[2]

\* the quotient a / b of a call is smaller than that of another
Less(p, q) == p[1] * q[2] < q[1] * p[2]

\* C14: with a progress callback supplied it is called once after each item of
\* each page, in the order of rendering, with renderedCount / totalCount,
\* totalCount being the number of items of all pages: the k-th call gets
\* k / totalCount, every value is in [0, 1], the values are strictly increasing,
\* and when the pass has gone through all items the last value is exactly 1.
C14_ProgressValues ==
  progressCallback =>
    LET total == Len(AllItems(ItemsOf(doc)))
    IN /\ Len(progress) = ItemsPassed
       /\ \A k \in DOMAIN progress :
            /\ progress[k] = <<k, total>>
            /\ total > 0
            /\ 0 <= progress[k][1] /\ progress[k][1] <= progress[k][2]
            /\ k > 1 => Less(progress[k - 1], progress[k])
       /\ (done /\ total > 0) =>
            progress[Len(progress)][1] = progress[Len(progress)][2]

\* a pass over two pages with three items, one of them not a line, has ended
\* with the callback called three times
C14_Witness ==
  /\ done
  /\ progressCallback
  /\ Len(doc) = 2
  /\ \E k \in DOMAIN AllItems(ItemsOf(doc)) : AllItems(ItemsOf(doc))[k].type # "line"
  /\ progress = <<<<1, 3>>, <<2, 3>>, <<3, 3>>>>

\* C20: when the pass ends with an element other than the root still on the
\* stack, a warning about the dangling element is emitted as the pass ends, and
\* the pass completes; with only the root left, no warning is emitted then.
C20_DanglingWarning ==
  [][(~done /\ done') =>
       IF Len(stk) > 1 THEN warnings' > warnings ELSE warnings' = warnings]_vars

\* C20, the part that holds: a pass that is not aborted by an exception ends,
\* whatever is left on the stack, and emits nothing as it ends
C20_PassEndsSilently ==
  [][(~done /\ done') => (warnings' = warnings /\ stk' = stk /\ ~thrown')]_vars

\* a pass has ended with a paragraph still open on the stack
C20_Witness ==
  /\ done
  /\ ~thrown
  /\ Len(stk) = 2
  /\ elems[stk[2]].S = "P"
  /\ elems[stk[2]].ended = 0
  /\ warnings = 0

\* ---------------------------------------------------------------------------
\* The element a line's span is attached to
\* ---------------------------------------------------------------------------

\* the element the last opening tag of a line created, 0 if the line opened none
RECURSIVE LastOpened(_, _)
LastOpened(sts, line) ==
  IF sts = <<>>
  THEN 0
  ELSE IF IsOpenStep(sts[Len(sts)], line)
       THEN topElement(sts[Len(sts)].after)
       ELSE LastOpened(SubSeq(sts, 1, Len(sts) - 1), line)

\* the first element a line queued for closure, 0 if it queued none
FifoFirst(sts) == IF Enqueued(sts) = <<>> THEN 0 ELSE Enqueued(sts)[1]

\* a step of the model is renderLine completing an endsNode line
EndsNodeLineDone ==
  /\ Len(rendered') = Len(rendered) + 1
  /\ endsNode(rendered'[Len(rendered')])
  /\ ~thrown'

\* the span that is current at the close of the line of the step: the one the
\* line opened, else the newest open one
SpanAtClose ==
  IF Len(contents') > Len(contents) THEN Len(contents') ELSE topElement(markings)

\* the spans open after the tag block and the opening of the line's own span
MarkingsAtClose ==
  IF Len(contents') > Len(contents) THEN Append(markings, Len(contents')) ELSE markings

\* C15: on an endsNode line the span is attached to the first element of the
\* line's closure FIFO, also when the line opened an element itself; with an
\* empty FIFO the span is closed without being attached to any element.
C15_AttachedToFifoFirst ==
  [][(EndsNodeLineDone /\ SpanAtClose # 0) =>
       /\ markings' = Pop(MarkingsAtClose)
       /\ attachedNow' = IF FifoFirst(steps') # 0
                         THEN <<SpanAtClose, FifoFirst(steps')>>
                         ELSE <<>>]_vars

\* C15 as the code has it: on an endsNode line the span is attached to the
\* element the line opened last, if it opened one, and otherwise to the first
\* element of the line's closure FIFO; when the line neither opened nor queued
\* an element the span is closed without being attached.
C15_AttachedToLastOpenedElseFifoFirst ==
  [][(EndsNodeLineDone /\ SpanAtClose # 0) =>
       LET line == rendered'[Len(rendered')]
           target == IF LastOpened(steps', line) # 0
                     THEN LastOpened(steps', line)
                     ELSE FifoFirst(steps')
       IN /\ markings' = Pop(MarkingsAtClose)
          /\ attachedNow' = IF target # 0 THEN <<SpanAtClose, target>> ELSE <<>>
          /\ target # 0 =>
               elems'[target].kids[Len(elems'[target].kids)] = ContentKid(SpanAtClose)]_vars

\* a line that closed one element and opened another attached its span to the
\* element it opened, not to the first of its FIFO
C15_Witness ==
  /\ rendered # <<>>
  /\ endsNode(LastLine)
  /\ ~thrown
  /\ FifoFirst(steps) # 0
  /\ LastOpened(steps, LastLine) # 0
  /\ attachedNow # <<>>
  /\ attachedNow[2] = LastOpened(steps, LastLine)
  /\ attachedNow[2] # FifoFirst(steps)

\* a line that opened nothing attached the open span to the first of its FIFO
C15_WitnessFifo ==
  /\ rendered # <<>>
  /\ endsNode(LastLine)
  /\ LastOpened(steps, LastLine) = 0
  /\ attachedNow # <<>>
  /\ attachedNow[2] = FifoFirst(steps)

\* a line that neither opened nor queued an element closed the open span
\* without attaching it
C15_WitnessUnattached ==
  /\ Len(rendered) >= 2
  /\ endsNode(LastLine)
  /\ ~thrown
  /\ steps # <<>>
  /\ LastOpened(steps, LastLine) = 0
  /\ FifoFirst(steps) = 0
  /\ attachedNow = <<>>
  /\ Len(contents) > Len(markings)
  /\ \A e \in DOMAIN elems : Len(contents) \notin ChildContents(e)

\* ---------------------------------------------------------------------------
\* Tag lists with tokens of every shape
\* ---------------------------------------------------------------------------

\* largest number of lines with such tag lists
MaxTokenLines == 3

\* tag lists that mix strings and onetime pops with numbers, null, arrays and
\* objects without a onetime field
TokenLines ==
  { StartLine(<<OpenTag("P"), OpenTag("Span")>>),
    StartLine(<<NumberTag, OpenTag("Span")>>),
    StartLine(<<NullTag, OpenTag("P")>>),
    StartLine(<<OnetimePop(1), OpenTag("P")>>),
    EndLine(<<OnetimePop(1), NumberTag, OnetimePop(1)>>),
    EndLine(<<CloseTag("Span"), OnetimePop(1), CloseTag("P")>>),
    EndLine(<<PlainObject, CloseTag("Span")>>),
    EndLine(<<CloseTag("Span"), ArrayTag>>),
    EndLine(<<NumberTag, NullTag>>) }

NextTokens == \E line \in TokenLines : Len(rendered) < MaxTokenLines /\ renderLine(line)

SpecTokens == InitPortrait /\ [][NextTokens]_vars

\* the token is an object {onetime: n} with a positive n
IsOnetimePop(tok) == tok.type = "object" /\ ~tok.isNull /\ tok.onetime >= 1

\* the tag list without its onetime pops
NotOnetimePop(tok) == ~IsOnetimePop(tok)

\* the tag list without its tokens of type object
NotObject(tok) == tok.type # "object"

\* the steps of rendering once more the last line as it is left
StepsOfLastLineAgain ==
  LET again == Line(tagsAfter, LastLine.startsNode, LastLine.endsNode)
  IN RenderLineResult(Entry(again), again).steps

\* an endsNode line has been processed to its end
EndsNodeLineProcessed == rendered # <<>> /\ endsNode(LastLine) /\ ~thrown

\* C16: after an endsNode line is processed, every onetime pop is gone from its
\* tag list and all other tokens are left in their order, wherever and however
\* many the onetime pops are; the line processed again does no onetime pop.
C16_OnetimePopsRemoved ==
  EndsNodeLineProcessed =>
    /\ tagsAfter = SelectSeq(LastLine.tags, NotOnetimePop)
    /\ \A i \in DOMAIN StepsOfLastLineAgain : ~IsOnetimePop(StepsOfLastLineAgain[i].tok)

\* C16 as the code has it: every token of type object (onetime pops, and also
\* arrays and objects without onetime) is gone, the others are left in order,
\* and the line processed again does no onetime pop
C16_ObjectsRemoved ==
  EndsNodeLineProcessed =>
    /\ tagsAfter = SelectSeq(LastLine.tags, NotObject)
    /\ \A i \in DOMAIN StepsOfLastLineAgain : ~IsOnetimePop(StepsOfLastLineAgain[i].tok)

\* an endsNode line with an object without onetime has lost it from its tag list
C16_Witness ==
  /\ EndsNodeLineProcessed
  /\ LastLine.tags = <<PlainObject, CloseTag("Span")>>
  /\ tagsAfter = <<CloseTag("Span")>>

\* a line with two onetime pops around a number has popped two elements and is
\* left with the number
C16_WitnessSeveral ==
  /\ EndsNodeLineProcessed
  /\ LastLine.tags = <<OnetimePop(1), NumberTag, OnetimePop(1)>>
  /\ tagsAfter = <<NumberTag>>
  /\ Len(endedNow) = 2

\* the token is neither a string nor an object {onetime: positive integer}
OtherShape(tok) == tok.type # "string" /\ ~IsOnetimePop(tok)

\* the token is neither a string nor of type object
NotStringNorObject(tok) == tok.type \notin {"string", "object"}

\* C18: a token that is neither a string nor an object {onetime: positive
\* integer} (a number, null, an array, an object without onetime) is ignored
\* with a warning: it changes neither stack nor tree nor the tag list, and one
\* warning is emitted for it.
C18_OtherShapesWarned ==
  rendered # <<>> =>
    /\ \A i \in DOMAIN steps :
         OtherShape(steps[i].tok) =>
           /\ ~steps[i].threw
           /\ steps[i].warned = 1
           /\ steps[i].after = steps[i].before
           /\ steps[i].enq = <<>>
    /\ steps # <<>> =>
         SelectSeq(tagsAfter, OtherShape) = SelectSeq(LastLine.tags, OtherShape)

\* C18, the part that holds: a token whose type is neither string nor object (a
\* number) is ignored with one warning and stays in the tag list
C18_NumbersWarned ==
  rendered # <<>> =>
    /\ \A i \in DOMAIN steps :
         NotStringNorObject(steps[i].tok) =>
           /\ ~steps[i].threw
           /\ steps[i].warned = 1
           /\ steps[i].after = steps[i].before
           /\ steps[i].enq = <<>>
    /\ steps # <<>> =>
         SelectSeq(tagsAfter, NotStringNorObject)
           = SelectSeq(LastLine.tags, NotStringNorObject)

\* an array in the tag list of an endsNode line was taken out of the list
\* without a warning
C18_Witness ==
  /\ EndsNodeLineProcessed
  /\ LastLine.tags = <<CloseTag("Span"), ArrayTag>>
  /\ Len(steps) = 2
  /\ steps[2].tok = ArrayTag
  /\ steps[2].warned = 0
  /\ tagsAfter = <<CloseTag("Span")>>

\* a number in a tag list was ignored with a warning
C18_WitnessNumber ==
  /\ rendered # <<>>
  /\ ~thrown
  /\ \E i \in DOMAIN steps : steps[i].tok = NumberTag /\ steps[i].warned = 1
  /\ NumberTag \in Range(tagsAfter)

\* ---------------------------------------------------------------------------
\* Lines with their flags absent, true or false
\* ---------------------------------------------------------------------------

\* largest number of such lines
MaxFlagLines == 2

\* the values of the startsNode / endsNode property of a line
Flags == {"absent", "true", "false"}

\* an opening tag, a closing tag and a onetime pop under every pair of flags
FlagLines ==
  { Line(tags, s, e) :
      tags \in { <<OpenTag("P")>>, <<CloseTag("P")>>, <<OnetimePop(1)>> },
      s \in Flags, e \in Flags }

NextFlags == \E line \in FlagLines : Len(rendered) < MaxFlagLines /\ renderLine(line)

SpecFlags == InitPortrait /\ [][NextFlags]_vars

\* the token is an opening tag, a closing tag
IsOpenToken(tok) == tok.type = "string" /\ ~tok.slash /\ tok.name # ""
IsCloseToken(tok) == tok.type = "string" /\ tok.slash

\* the tokens of the last line acted only under the flags for which the given
\* predicate holds
GatedBy(set(_)) ==
  rendered # <<>> =>
    \A i \in DOMAIN steps :
      LET st == steps[i]
      IN /\ IsOpenToken(st.tok) =>
              IF set(LastLine.startsNode)
              THEN /\ Len(st.after) = Len(st.before) + 1
                   /\ SubSeq(st.after, 1, Len(st.before)) = st.before
              ELSE st.after = st.before
         /\ (IsCloseToken(st.tok) \/ IsOnetimePop(st.tok)) =>
              (~set(LastLine.endsNode) => st.after = st.before /\ st.enq = <<>>)
         /\ ~set(LastLine.startsNode) => Len(st.after) <= Len(st.before)
         /\ ~set(LastLine.endsNode) => Len(st.after) >= Len(st.before)

\* the flag is set: it is there and true
IsTrue(flag) == flag = "true"

\* the flag is there, whatever its value
IsPresent(flag) == flag # "absent"

\* C17: an opening tag creates and pushes an element only on a line whose
\* startsNode flag is true, and a closing tag or a onetime pop pops only on a
\* line whose endsNode flag is true; where the flag is absent or false the token
\* changes nothing, so the stack grows on no line without startsNode and shrinks
\* on no line without endsNode.
C17_GatedByTrueFlags == GatedBy(IsTrue)

\* C17 as the code has it: the tokens are gated by the presence of the
\* flags, whatever their value
C17_GatedByPresentFlags == GatedBy(IsPresent)

\* an opening tag on a line with startsNode: false has created and pushed a P
C17_Witness ==
  /\ rendered # <<>>
  /\ LastLine = Line(<<OpenTag("P")>>, "false", "absent")
  /\ Len(steps) = 1
  /\ Len(steps[1].after) = Len(steps[1].before) + 1
  /\ elems[topElement(stk)].S = "P"

\* an opening tag on a line without startsNode has changed nothing, and one on
\* a line with startsNode: true has pushed a P
C17_WitnessGated ==
  /\ Len(rendered) = 2
  /\ rendered[1] = Line(<<OpenTag("P")>>, "true", "absent")
  /\ LastLine = Line(<<OpenTag("P")>>, "absent", "true")
  /\ stk = <<1, 2>>

\* ---------------------------------------------------------------------------
\* Opening tags under every kind of parent
\* ---------------------------------------------------------------------------

\* largest number of lines that open or pop one element
MaxPolicyLines == 3

\* names of structure elements: table and list constructs, headings, a paragraph
PolicyNames ==
  {"Table", "TR", "TD", "TH", "L", "LI", "Lbl", "LBody",
   "H", "H1", "H2", "H3", "H4", "H5", "H6", "P"}

\* lines that open one element each, and a line that pops one
PolicyLines ==
  { StartLine(<<OpenTag(name)>>) : name \in PolicyNames } \cup { EndLine(<<OnetimePop(1)>>) }

NextPolicy == \E line \in PolicyLines : Len(rendered) < MaxPolicyLines /\ renderLine(line)

SpecPolicy == InitPortrait /\ [][NextPolicy]_vars

\* the level of a heading: 0 for H, n for Hn; -1 for a name that is no heading
HeadingLevel(name) ==
  CASE name = "H" -> 0
    [] name = "H1" -> 1
    [] name = "H2" -> 2
    [] name = "H3" -> 3
    [] name = "H4" -> 4
    [] name = "H5" -> 5
    [] name = "H6" -> 6
    [] OTHER -> -1

\* the children a table, a row, a list and a list item allow
AllowedUnder(parent) ==
  CASE parent = "Table" -> {"TR"}
    [] parent = "TR" -> {"TD", "TH"}
    [] parent = "L" -> {"LI"}
    [] parent = "LI" -> {"Lbl", "LBody"}

\* the nesting policy: a table, row, list or list item with a child outside its
\* allow-list; a heading with a row or a cell, or with a heading of its own or a
\* higher rank, as child
ViolatesPolicy(parent, child) ==
  \/ parent \in {"Table", "TR", "L", "LI"} /\ child \notin AllowedUnder(parent)
  \/ /\ HeadingLevel(parent) >= 0
     /\ \/ child \in {"TR", "TD", "TH"}
        \/ HeadingLevel(child) >= 0 /\ HeadingLevel(child) <= HeadingLevel(parent)

\* C19: an opening tag on a startsNode line that violates the nesting policy
\* emits exactly one warning and is otherwise processed like a conforming one,
\* which emits none: the element is created as a child of the stack top, pushed,
\* and is the last opened element of the line, for which the line's span is
\* opened.
C19_ViolationWarnsAndOpens ==
  rendered # <<>> =>
    /\ \A i \in DOMAIN steps :
         IsOpenStep(steps[i], LastLine) =>
           LET st == steps[i]
               parent == topElement(st.before)
               new == topElement(st.after)
           IN /\ st.warned = IF ViolatesPolicy(elems[parent].S, st.tok.name) THEN 1 ELSE 0
              /\ st.after = Append(st.before, new)
              /\ new \notin Range(st.before)
              /\ elems[new].S = st.tok.name
              /\ ParentsOf(new) = {parent}
    /\ LastOpened(steps, LastLine) # 0 =>
         /\ contents[Len(contents)].owner = LastOpened(steps, LastLine)
         /\ contents[Len(contents)].tag = elems[LastOpened(steps, LastLine)].S

\* a row has been opened under a heading and a paragraph under the row, each
\* with one warning, and each is on the stack under its parent
C19_Witness ==
  /\ Len(rendered) = 3
  /\ ~thrown
  /\ Len(stk) = 4
  /\ elems[stk[2]].S \in {"H1", "H2"}
  /\ elems[stk[3]].S = "TR"
  /\ elems[stk[4]].S = "P"
  /\ warnings = 2
  /\ prevSteps[1].warned = 1
  /\ steps[1].warned = 1

\* a heading of a lower rank has been opened under a heading without a warning
C19_WitnessConforming ==
  /\ Len(rendered) = 2
  /\ Len(stk) = 3
  /\ elems[stk[2]].S = "H1"
  /\ elems[stk[3]].S = "H2"
  /\ warnings = 0

\* ---------------------------------------------------------------------------
\* Lines without tags or without flags among tagged lines
\* ---------------------------------------------------------------------------

\* largest number of such lines
MaxFrameLines == 3

\* a line whose tags property is undefined or []: either makes the guard
\* line.tags && line.tags.length > 0 fail
UntaggedLine(s, e) == Line(<<>>, s, e)

\* lines without tags under every pair of flags, lines with tags and neither
\* flag, and lines with tags and a flag: opening, closing, closing the root
FrameLines ==
  { UntaggedLine(s, e) : s \in {"absent", "true"}, e \in {"absent", "true"} }
  \cup { Line(tags, "absent", "absent") :
           tags \in { <<OpenTag("P")>>, <<CloseTag("P")>>, <<OnetimePop(1)>>, <<NumberTag>> } }
  \cup { StartLine(<<OpenTag("P")>>), EndLine(<<CloseTag("P")>>),
         EndLine(<<NumberTag>>), Line(<<OpenTag("P")>>, "false", "absent"),
         EndLine(<<CloseTag("Document")>>) }

NextFrame == \E line \in FrameLines : Len(rendered) < MaxFrameLines /\ renderLine(line)

SpecFrame == InitPortrait /\ [][NextFrame]_vars

\* the line has a non-empty tag list and carries at least one of the flags
Tagged(line) == Len(line.tags) > 0 /\ (IsPresent(line.startsNode) \/ IsPresent(line.endsNode))

\* the elements that are no child of any element
Roots == {e \in DOMAIN elems : ParentsOf(e) = {}}

\* C21: a line whose tag list is absent or empty, or that carries neither flag,
\* leaves stack and structure tree as they are: no root and no element is
\* created, pushed, popped or closed and no warning is emitted. The root is
\* created only by the first line of the pass with a non-empty tag list and a
\* flag, and only once in the pass.
C21_UntaggedLinesChangeNothing ==
  [][Len(rendered') = Len(rendered) + 1 =>
       LET line == rendered'[Len(rendered')]
       IN /\ ~Tagged(line) =>
               /\ hasStk' = hasStk
               /\ stk' = stk
               /\ elems' = elems
               /\ warnings' = warnings
               /\ steps' = <<>> /\ endedNow' = <<>> /\ attachedNow' = <<>>
          /\ Tagged(line) =>
               /\ hasStk'
               /\ ~hasStk =>
                    /\ \A i \in DOMAIN rendered : ~Tagged(rendered[i])
                    /\ elems = <<>>
                    /\ elems'[Root].S = "Document"
               /\ hasStk => Len(elems) >= 1 /\ elems'[Root].S = elems[Root].S
          /\ Cardinality({e \in DOMAIN elems' : \A p \in DOMAIN elems' :
                            \A i \in DOMAIN elems'[p].kids :
                              elems'[p].kids[i] # ElemKid(e)})
               = IF hasStk' THEN 1 ELSE 0]_vars

\* after lines without tags or flags left everything untouched, a tagged line
\* created the root, which was then closed and popped, and a later tagged line
\* did not create another
C21_Witness ==
  /\ Len(rendered) = 3
  /\ ~Tagged(rendered[1])
  /\ rendered[1].tags # <<>>
  /\ rendered[2] = EndLine(<<CloseTag("Document")>>)
  /\ Tagged(rendered[3])
  /\ hasStk
  /\ stk = <<>>
  /\ Roots = {Root}

\* three lines without tags or without flags have left the backend without a stack
C21_WitnessUntouched ==
  /\ Len(rendered) = 3
  /\ \E i \in 1..3 : rendered[i].tags = <<>> /\ rendered[i].endsNode = "true"
  /\ \E i \in 1..3 : rendered[i].tags # <<>>
  /\ ~hasStk
  /\ elems = <<>>
  /\ warnings = 0

\* ---------------------------------------------------------------------------
\* The page size of a document, and the height of an auto-height page
\* ---------------------------------------------------------------------------

\* numbers with Infinity, and the string 'auto' where a height can be
Fin(n) == [k |-> "fin", n |-> n]
Infinity == [k |-> "inf", n |-> 0]
Auto == [k |-> "auto", n |-> 0]

\* a > b and a < b on numbers with Infinity
Gt(a, b) == IF a.k = "fin" THEN b.k = "fin" /\ a.n > b.n ELSE a.k = "inf" /\ b.k = "fin"
Lt(a, b) == Gt(b, a)

\* docDefinition.pageSize: a name, an object {width, height}, or undefined
NamedSize(name) == [kind |-> "string", name |-> name, width |-> Fin(0), height |-> Fin(0)]
SizeObject(w, h) == [kind |-> "object", name |-> "", width |-> w, height |-> h]
NoSize == [kind |-> "undefined", name |-> "", width |-> Fin(0), height |-> Fin(0)]

\* String.prototype.toUpperCase / toLowerCase on the names used here
toUpperCase(str) ==
  CASE str = "a4" -> "A4"
    [] str = "landscape" -> "LANDSCAPE"
    [] str = "portrait" -> "PORTRAIT"
    [] OTHER -> str

toLowerCase(str) ==
  CASE str = "A4" -> "a4"
    [] str = "LANDSCAPE" -> "landscape"
    [] str = "PORTRAIT" -> "portrait"
    [] OTHER -> str

\* standardPageSizes, in whole points
sizes == ("A4" :> <<595, 842>>) @@ ("A5" :> <<420, 595>>)

\* pageSize2widthAndHeight(pageSize)
pageSize2widthAndHeight(pageSize) ==
  IF pageSize.kind = "string"
  THEN IF toUpperCase(pageSize.name) \in DOMAIN sizes
       THEN Returned(SizeObject(Fin(sizes[toUpperCase(pageSize.name)][1]),
                                Fin(sizes[toUpperCase(pageSize.name)][2])))
       ELSE Raised
  ELSE Returned(pageSize)

\* fixPageSize: isNeedSwapPageSizes(pageOrientation); "none" is an orientation
\* that is not a string
isNeedSwapPageSizes(pageOrientation, sz) ==
  IF pageOrientation # "none"
  THEN \/ toLowerCase(pageOrientation) = "portrait" /\ Gt(sz.width, sz.height)
       \/ toLowerCase(pageOrientation) = "landscape" /\ Lt(sz.width, sz.height)
  ELSE FALSE

\* the size object fixPageSize returns
FixedSize(w, h) ==
  [width |-> w, height |-> h, orientation |-> IF Gt(w, h) THEN "landscape" ELSE "portrait"]

\* fixPageSize(pageSize, pageOrientation)
fixPageSize(pageSize, pageOrientation) ==
  LET given == IF pageSize.kind = "object" /\ pageSize.height = Auto
               THEN [pageSize EXCEPT !.height = Infinity]
               ELSE pageSize
      looked == pageSize2widthAndHeight(IF given.kind = "undefined" THEN NamedSize("A4") ELSE given)
  IN IF looked.threw
     THEN Raised
     ELSE LET sz == looked.value
          IN IF isNeedSwapPageSizes(pageOrientation, sz)
             THEN Returned(FixedSize(sz.height, sz.width))
             ELSE Returned(FixedSize(sz.width, sz.height))

\* createPdfKitDocument: the size option of the backend after the layout
PhysicalSize(pageSize, pages, margins) ==
  IF pageSize.height = Infinity
  THEN LET pageHeight == calculatePageHeight(pages, margins)
       IN IF pageHeight.threw
          THEN Raised
          ELSE Returned(<<pageSize.width,
                          IF pageHeight.value = Undefined THEN Undefined
                          ELSE Fin(pageHeight.value[1])>>)
  ELSE Returned(<<pageSize.width, pageSize.height>>)

\* createPdfKitDocument: var pageSize = fixPageSize(...)
FixPageSize ==
  /\ call.fn = "createPdfKitDocument"
  /\ result = <<>>
  /\ result' = <<fixPageSize(call.pageSize, call.pageOrientation)>>
  /\ UNCHANGED <<lineVars, pageVars, passVars, call>>

\* createPdfKitDocument: after layoutDocument, the height of an auto-height page
SetPhysicalSize ==
  /\ call.fn = "createPdfKitDocument"
  /\ Len(result) = 1
  /\ ~result[1].threw
  /\ result' = Append(result, PhysicalSize(result[1].value, call.pages, call.margins))
  /\ UNCHANGED <<lineVars, pageVars, passVars, call>>

\* docDefinition.pageOrientation; "none" when it is not given
PageOrientations == {"none", "portrait", "landscape", "LANDSCAPE", "sideways"}

\* docDefinition.pageSize
PageSizes ==
  { SizeObject(Fin(w), h) : w \in {200, 595}, h \in {Auto, Fin(300), Fin(842)} }
  \cup { NamedSize("A4"), NamedSize("a4"), NamedSize("FOLIO9"), NoSize }

\* the items the layout put on the pages
AutoItems == { LineItem(100, 50), LineItem(300, 20), VectorRect(500) }

InitAuto ==
  /\ FreshDocument
  /\ size = <<2, 3>>
  /\ NoPass
  /\ \E pageSize \in PageSizes, pageOrientation \in PageOrientations,
        pages \in PageLists(AutoItems, MaxItems), margins \in {Num(40), Num(10), Arr(<<10, 20>>)} :
       call = [fn |-> "createPdfKitDocument", pageSize |-> pageSize,
               pageOrientation |-> pageOrientation, pages |-> pages, margins |-> margins]
  /\ result = <<>>

NextAuto == FixPageSize \/ SetPhysicalSize

SpecAuto == InitAuto /\ [][NextAuto]_vars

\* a document with an auto-height page and one of the three orientation settings
AutoHeightRequested ==
  /\ call.fn = "createPdfKitDocument"
  /\ call.pageSize.kind = "object"
  /\ call.pageSize.height = Auto
  /\ call.pageOrientation \in {"none", "portrait", "landscape"}

\* what is claimed of a document with an auto-height page, for the settings in a set
AutoHeightResolved(orientations) ==
  (AutoHeightRequested /\ call.pageOrientation \in orientations) =>
    /\ Len(result) >= 1 =>
         /\ ~result[1].threw
         /\ result[1].value.width = call.pageSize.width
         /\ result[1].value.width.k = "fin"
         /\ result[1].value.height = Infinity
    /\ Len(result) = 2 =>
         /\ ~result[2].threw
         /\ result[2].value[1] = call.pageSize.width
         /\ result[2].value[2] # Undefined
         /\ result[2].value[2] = Fin(calculatePageHeight(call.pages, call.margins).value[1])

\* C22: with the requested height 'auto', for every orientation setting (none,
\* portrait, landscape) the resolved size has a finite width and an unbounded
\* height, and after the layout the physical height is the finite value of the
\* auto-height computation; the width is never unbounded.
C22_AutoHeightGeometry == AutoHeightResolved({"none", "portrait", "landscape"})

\* C22, the part that holds: the same without an orientation and for portrait
C22_AutoHeightUnlessLandscape == AutoHeightResolved({"none", "portrait"})

\* an auto-height page asked for in landscape has come out with an unbounded
\* width and the requested width as its height, and kept them after the layout
C22_Witness ==
  /\ AutoHeightRequested
  /\ call.pageOrientation = "landscape"
  /\ call.pageSize.width = Fin(595)
  /\ Len(result) = 2
  /\ result[1].value = FixedSize(Infinity, Fin(595))
  /\ result[2] = Returned(<<Infinity, Fin(595)>>)

\* an auto-height page in portrait has got the computed height
C22_WitnessPortrait ==
  /\ AutoHeightRequested
  /\ call.pageOrientation = "portrait"
  /\ call.pages = <<<<LineItem(100, 50)>>, <<LineItem(300, 20)>>>>
  /\ call.margins = Num(40)
  /\ Len(result) = 2
  /\ result[2] = Returned(<<call.pageSize.width, Fin(360)>>)

\* ---------------------------------------------------------------------------
\* Passes over tag streams that open and close elements across lines and pages
\* ---------------------------------------------------------------------------

\* largest number of items in the pages of such a pass
MaxStreamItems == 3

\* lines that open one element, lines that close one or several, a paragraph
\* of one line, a onetime pop of two, and a line that closes the root
StreamItems ==
  { TextItem(StartLine(<<OpenTag("P")>>)),
    TextItem(StartLine(<<OpenTag("Span")>>)),
    TextItem(EndLine(<<CloseTag("Span"), CloseTag("P")>>)),
    TextItem(EndLine(<<CloseTag("Span")>>)),
    TextItem(EndLine(<<CloseTag("P")>>)),
    TextItem(BothLine(<<OpenTag("P"), CloseTag("P")>>)),
    TextItem(EndLine(<<OnetimePop(2)>>)),
    TextItem(EndLine(<<CloseTag("Document")>>)) }

\* the page lists of such a pass
StreamPages ==
  { [k \in DOMAIN pl |-> [items |-> pl[k], orientation |-> o]] :
      pl \in PageLists(StreamItems, MaxStreamItems), o \in Orientations }

\* renderPages without a progress callback, after its first addPage
InitStream ==
  /\ FreshDocument
  /\ size = <<2, 3>>
  /\ doc \in StreamPages
  /\ progressCallback = FALSE
  /\ totalItems = TotalItems(doc, progressCallback)
  /\ pos = <<1, 0>>
  /\ renderedItems = 0
  /\ progress = <<>>
  /\ done = FALSE
  /\ NoCall

NextStream == RenderItem \/ NextPage \/ Finish

SpecStream == InitStream /\ [][NextStream]_vars

\* the elements created and not closed
OpenElements == {e \in DOMAIN elems : elems[e].ended = 0}

\* between lines the stack is the chain of the open elements
StackIsOpenChain ==
  ~thrown =>
    /\ Range(stk) = OpenElements
    /\ \A i, j \in DOMAIN stk : i # j => stk[i] # stk[j]
    /\ \A i \in DOMAIN stk : elems[stk[i]].ended = 0
    /\ stk # <<>> => stk[1] = Root
    /\ \A i \in 2..Len(stk) : ParentsOf(stk[i]) = {stk[i - 1]}
    /\ \A e \in DOMAIN elems : elems[e].ended <= 1
    /\ ~hasStk => elems = <<>>

\* a step of the pass adds a physical page
PageAdded == Len(docPages') = Len(docPages) + 1

\* C23: between lines, across page boundaries too, the elements created and not
\* closed are exactly the elements on the stack, every stack entry above the
\* root is a child of the entry below it, and no closed element is on the
\* stack; adding a physical page does not change the stack.
C23_StackIsOpenElements ==
  /\ []StackIsOpenChain
  /\ [][PageAdded => (stk' = stk /\ elems' = elems /\ hasStk' = hasStk)]_vars

\* on the second page of a pass, a line has closed two elements opened on the
\* first page and on the second, leaving the root alone on the stack
C23_Witness ==
  /\ Len(docPages) = 2
  /\ Len(rendered) = 3
  /\ ~thrown
  /\ LastLine = EndLine(<<CloseTag("Span"), CloseTag("P")>>)
  /\ Len(endedNow) = 2
  /\ stk = <<Root>>
  /\ OpenElements = {Root}

\* an open paragraph has stayed on the stack over a page boundary
C23_WitnessOpenAcrossPages ==
  /\ Len(docPages) = 2
  /\ pos = <<2, 0>>
  /\ stk = <<Root, 2>>
  /\ OpenElements = {Root, 2}

\* the tokens of a line are opening tags only if it has startsNode, and closing
\* tags or onetime pops only if it has endsNode
WellFlagged(line) ==
  \A i \in DOMAIN line.tags :
    /\ IsOpenToken(line.tags[i]) \/ IsCloseToken(line.tags[i]) \/ IsOnetimePop(line.tags[i])
    /\ IsOpenToken(line.tags[i]) => startsNode(line)
    /\ (IsCloseToken(line.tags[i]) \/ IsOnetimePop(line.tags[i])) => endsNode(line)

\* the pass has ended over a balanced stream: every open was closed by a
\* matching close or a onetime pop that asked for no more than there was, and
\* the stack is back to the root
BalancedStreamDone ==
  /\ done
  /\ ~thrown
  /\ hasStk
  /\ warnings = 0
  /\ stk = <<Root>>
  /\ OpenElements = {Root}
  /\ \A i \in DOMAIN rendered : WellFlagged(rendered[i])

\* the spans attached to some element
AttachedSpans == UNION {ChildContents(e) : e \in DOMAIN elems}

\* C24: for a balanced tag stream every span that was opened is closed and
\* attached to an element by the end of the pass; none is left open, also when
\* one endsNode line closes several elements whose spans were opened on
\* different lines.
C24_SpansClosedAndAttached ==
  BalancedStreamDone =>
    /\ markings = <<>>
    /\ AttachedSpans = DOMAIN contents

\* C24, the part that holds: by the end of a balanced stream every span is
\* either attached to an element and closed, or still open, and one span was
\* closed for each endsNode line
C24_OneSpanClosedPerEndsNodeLine ==
  BalancedStreamDone =>
    /\ AttachedSpans \cap Range(markings) = {}
    /\ AttachedSpans \cup Range(markings) = DOMAIN contents
    /\ Cardinality(AttachedSpans) = Cardinality({i \in DOMAIN rendered : endsNode(rendered[i])})

\* a pass over P, Span and a line closing both has ended with the stack back to
\* the root and the span of P still open and attached to nothing
C24_Witness ==
  /\ BalancedStreamDone
  /\ rendered = <<StartLine(<<OpenTag("P")>>), StartLine(<<OpenTag("Span")>>),
                  EndLine(<<CloseTag("Span"), CloseTag("P")>>)>>
  /\ Len(contents) = 2
  /\ markings = <<1>>
  /\ AttachedSpans = {2}

\* a pass over two paragraphs of one line each has closed and attached both spans
C24_WitnessClosed ==
  /\ BalancedStreamDone
  /\ Len(rendered) >= 2
  /\ Len(contents) = Len(rendered)
  /\ markings = <<>>
  /\ AttachedSpans = DOMAIN contents
====
